---- MODULE Spec2Model ----
(***************************************************************************)
(* The Express server of src/server.ts: accounts, sessions, profile,       *)
(* avatar and CV history routes over the db adapter (SQLite or Postgres).  *)
(* Every HTTP request is a process: it is started by a Start... action     *)
(* (the synchronous part of the handler up to its first await) and then    *)
(* advances one await at a time.  Storage statements are atomic.           *)
(***************************************************************************)
EXTENDS Integers, Sequences, FiniteSets, TLC

\* ------------------------------------------------------------------ bounds
MaxReqs == 2        \* requests in flight at once
MaxUsers == 2       \* rows ever inserted into users
MaxHist == 2        \* rows ever inserted into cv_history
MaxNow == 1         \* ticks of the storage clock
MaxSql == 3         \* tokens of a query text
MaxClicks == 3      \* requests one browser starts from its loading handlers

Reqs == 1..MaxReqs
Sessions == {"s1", "s2"}     \* browser cookie jars (one session id each)

\* ------------------------------------------------------------------ values
Undefined == "undefined"     \* JavaScript undefined: a field absent from req.body
Null == "null"               \* SQL NULL / JavaScript null

\* req.params.id is the text of the path segment: the decimal form of a row id,
\* or TooBig, the decimal form of 2^31, which the int4 of a Postgres SERIAL
\* column cannot hold.
IdText(id) == ToString(id)
TooBig == "2147483648"

\* Passwords are strings of characters 1, 2 (0 is the NUL byte bcryptjs appends).
PwShort == <<1>>
PwShortAlt == <<2>>
PwLong == [i \in 1..73 |-> 1]
PwLongAlt == [PwLong EXCEPT ![73] = 2]

\* bcryptjs keys Blowfish with the password bytes followed by NUL, read
\* cyclically: 18 words of 4 bytes, so 72 bytes of key material.
KeyStream(pw) ==
  LET b == pw \o <<0>>
  IN  [i \in 1..72 |-> b[((i - 1) % Len(b)) + 1]]

\* bcrypt.hash(password, 10): a string made of the generated salt and the digest
\* of the key stream under that salt.  The digest is kept symbolic (one-way and
\* injective in salt and key stream).
BcryptHash(pw, salt) == <<salt>> \o KeyStream(pw)

\* bcrypt.compare(password, hash): re-hash with the salt read from the hash.
BcryptCompare(pw, hash) == BcryptHash(pw, Head(hash)) = hash

Salts == {7}

\* ------------------------------------------------------------------ state
VARIABLES
  isPostgres,   \* boot-time backend choice (!!process.env.DATABASE_URL)
  users,        \* table users: set of rows
  cv_history,   \* table cv_history: set of rows
  userSeq,      \* last id given out by users.id AUTOINCREMENT / SERIAL
  histSeq,      \* last id given out by cv_history.id
  now,          \* the clock (Date.now(), CURRENT_TIMESTAMP)
  uploads,      \* files in ./uploads/avatars
  sessions,     \* express-session store: session -> userId (0: none)
  reqs,         \* the requests: handler position, locals, response
  running,      \* request whose continuation holds the JS thread (0: none)
  registered,   \* history: the (email, password) pairs accounts were created with
  call,         \* a call of db.get, db.all or db.run: its text, as sent and as bound
  deploy,       \* two deployments: their environments, cookies issued and verified
  client        \* the React state of App in one browser

vars == <<isPostgres, users, cv_history, userSeq, histSeq, now, uploads,
          sessions, reqs, running, registered, call, deploy, client>>

\* what the route handlers of one server never touch
apart == <<call, deploy, client>>

\* useState initial values
Tabs == {"cover-letter", "interview"}

NoClient == [user |-> 0, history |-> {}, profileName |-> "", profileBio |-> "",
             theme |-> "light", isLoading |-> FALSE, inflight |-> {}, clicks |-> 0,
             shown |-> [tab \in Tabs |-> 0]]

NoDeploy == [env |-> <<>>, issued |-> {}, verified |-> {}]

NoCall == [method |-> "none", sql |-> <<>>, params |-> <<>>, state |-> "idle",
           text |-> <<>>, bound |-> <<>>]

Idle == [kind |-> "idle", sess |-> "s1", uid |-> 0, body |-> <<>>,
         pc |-> "idle", loc |-> <<>>, res |-> [status |-> 0, body |-> <<>>]]

Init ==
  /\ isPostgres \in BOOLEAN
  /\ users = {}
  /\ cv_history = {}
  /\ userSeq = 0
  /\ histSeq = 0
  /\ now = 0
  /\ uploads = {}
  /\ sessions = [s \in Sessions |-> 0]
  /\ reqs = [r \in Reqs |-> Idle]
  /\ running = 0
  /\ registered = {}
  /\ call = NoCall
  /\ deploy = NoDeploy
  /\ client = NoClient

\* ------------------------------------------------------------------ requests
InFlight(r) == reqs[r].pc \notin {"idle", "done", "rejected"}

\* A new request takes the lowest slot that holds no request in flight.
FreeSlot(r) ==
  /\ ~InFlight(r)
  /\ \A q \in Reqs : q < r => InFlight(q)

\* An await on a better-sqlite3 call resumes in a microtask: no other request's
\* callback runs before the continuation.  A Postgres query, bcrypt and multer
\* yield to the event loop.
Yields(r) == IF isPostgres THEN 0 ELSE r

CanStart(r) == FreeSlot(r) /\ running = 0
CanStep(r, kind, pc) ==
  reqs[r].kind = kind /\ reqs[r].pc = pc /\ running \in {0, r}

NewReq(kind, s, body, pc) ==
  [kind |-> kind, sess |-> s, uid |-> sessions[s], body |-> body,
   pc |-> pc, loc |-> <<>>, res |-> [status |-> 0, body |-> <<>>]]

Respond(q, status, body) ==
  [q EXCEPT !.pc = "done", !.loc = <<>>, !.res = [status |-> status, body |-> body]]

\* an await throws outside any try: the promise of the async handler rejects,
\* Express does not look at it, and no response is ever written
Reject(q) == [q EXCEPT !.pc = "rejected", !.loc = <<>>]

\* the handler moves on to its next await with more locals bound
Goto(q, pc, loc) ==
  [q EXCEPT !.pc = pc,
            !.loc = [f \in DOMAIN q.loc \cup DOMAIN loc |->
                       IF f \in DOMAIN loc THEN loc[f] ELSE q.loc[f]]]

\* (mutant) the session check forgotten
AuthenticatedAlways(userId) == TRUE

\* if (!userId) return res.status(401)...; if (userId) { ... }
Authenticated(userId) == userId # 0

\* ------------------------------------------------------------------ db adapter
\* A query text is a sequence of tokens; the token "?" is a placeholder.
RECURSIVE RewriteSame(_, _)
\* (mutant) the counter never incremented
RewriteSame(sql, count) ==
  IF sql = <<>> THEN <<>>
  ELSE IF Head(sql) = "?"
       THEN <<"$" \o ToString(count)>> \o RewriteSame(Tail(sql), count)
       ELSE <<Head(sql)>> \o RewriteSame(Tail(sql), count)

RECURSIVE Rewrite(_, _)
\* sql.replace(/\?/g, () => `$${count++}`)
Rewrite(sql, count) ==
  IF sql = <<>> THEN <<>>
  ELSE IF Head(sql) = "?"
       THEN <<"$" \o ToString(count)>> \o Rewrite(Tail(sql), count + 1)
       ELSE <<Head(sql)>> \o Rewrite(Tail(sql), count)

\* pgSql.trim().toUpperCase().startsWith("INSERT")
ToUpperCase(token) == IF token = "insert" THEN "INSERT" ELSE token
StartsWithInsert(text) == text # <<>> /\ ToUpperCase(Head(text)) = "INSERT"

\* the text that reaches the backend: rewritten for pgPool.query (run adds
\* RETURNING id to an INSERT), as written for sqliteDb.prepare
Sent(method, sql) ==
  IF isPostgres
  THEN LET pgSql == Rewrite(sql, 1) IN
       IF method = "run" /\ StartsWithInsert(pgSql)
       THEN pgSql \o <<" RETURNING id">>
       ELSE pgSql
  ELSE sql

\* pg binds params[k - 1] to $k
PgBind(text, params) ==
  [j \in DOMAIN text |->
     IF \E k \in DOMAIN params : text[j] = "$" \o ToString(k)
     THEN params[CHOOSE k \in DOMAIN params : text[j] = "$" \o ToString(k)]
     ELSE text[j]]

RECURSIVE SqliteBind(_, _)
\* better-sqlite3 binds the parameters to the ? in the order of the text
SqliteBind(text, params) ==
  IF text = <<>> THEN <<>>
  ELSE IF Head(text) = "?" /\ params # <<>>
       THEN <<Head(params)>> \o SqliteBind(Tail(text), Tail(params))
       ELSE <<Head(text)>> \o SqliteBind(Tail(text), params)

Bind(text, params) ==
  IF isPostgres THEN PgBind(text, params) ELSE SqliteBind(text, params)

\* db.get / db.all / db.run reach the backend
Query ==
  /\ call.state = "issued"
  /\ call' = [call EXCEPT !.state = "sent",
                          !.text = Sent(call.method, call.sql),
                          !.bound = Bind(Sent(call.method, call.sql), call.params)]
  /\ UNCHANGED <<isPostgres, users, cv_history, userSeq, histSeq, now, uploads,
                 sessions, reqs, running, registered, deploy, client>>

\* ------------------------------------------------------------------ session cookie
\* session({ secret: "cv-to-ai-secret-key", ... }): the secret is a literal;
\* process.env.SESSION_SECRET is not read
SessionSecret(env) == "cv-to-ai-secret-key"

\* the HMAC-SHA256 of the session id under the secret, kept symbolic (injective)
Hmac(sid, secret) == <<"hmac", sid, secret>>

\* cookie-signature sign: the value of the connect.sid cookie
Sign(sid, secret) == [sid |-> sid, mac |-> Hmac(sid, secret)]

\* cookie-signature unsign: the session id, or false when the mac does not match
Unsign(cookie, secret) ==
  IF cookie.mac = Hmac(cookie.sid, secret) THEN cookie.sid ELSE "false"

\* deployment d sets the cookie of a new session
Issue(d, sid) ==
  /\ deploy' = [deploy EXCEPT !.issued = @ \cup
       {[by |-> d, cookie |-> Sign(sid, SessionSecret(deploy.env[d]))]}]
  /\ UNCHANGED <<isPostgres, users, cv_history, userSeq, histSeq, now, uploads,
                 sessions, reqs, running, registered, call, client>>

\* a request presents to deployment d a cookie that some deployment issued
Verify(d, c) ==
  /\ c \in deploy.issued
  /\ deploy' = [deploy EXCEPT !.verified = @ \cup
       {[at |-> d, by |-> c.by,
         sid |-> Unsign(c.cookie, SessionSecret(deploy.env[d]))]}]
  /\ UNCHANGED <<isPostgres, users, cv_history, userSeq, histSeq, now, uploads,
                 sessions, reqs, running, registered, call, client>>

\* ------------------------------------------------------------------ storage
\* (mutant) the column declared without UNIQUE
NoUniqueViolation(table, email) == FALSE

\* users.email TEXT UNIQUE
UniqueViolation(table, email) == \E u \in table : u.email = email

\* INSERT INTO users (email, password, name) VALUES (?, ?, ?)
InsertUser(table, id, email, hashed, name) ==
  table \cup {[id |-> id, email |-> email, password |-> hashed, name |-> name,
               avatar |-> Null, bio |-> Null, theme |-> "light"]}

\* (mutant) INSERT OR REPLACE: the row of that email is overwritten
RunInsertOrReplaceUser(table, id, email, hashed, name) ==
  [threw |-> FALSE,
   table |-> InsertUser({u \in table : u.email # email}, id, email, hashed, name)]

\* db.run of the INSERT: it throws on a UNIQUE violation and writes nothing,
\* otherwise the row is added
RunInsertUser(table, id, email, hashed, name) ==
  IF UniqueViolation(table, email)
  THEN [threw |-> TRUE, table |-> table]
  ELSE [threw |-> FALSE, table |-> InsertUser(table, id, email, hashed, name)]

\* (mutant) the id of the first row of the table
FirstRowid(table, id) ==
  CHOOSE i \in {u.id : u \in table} : \A u \in table : i <= u.id

\* the result of db.run: info.lastInsertRowid of the statement (better-sqlite3),
\* res.rows[0]?.id of its RETURNING id (pg); table holds the row inserted as id
LastInsertRowid(table, id) == id

\* SELECT id, email, name FROM users WHERE id = ?
SelectRegistered(table, id) ==
  {[id |-> u.id, email |-> u.email, name |-> u.name] : u \in {v \in table : v.id = id}}

\* SELECT * FROM users WHERE email = ?
SelectByEmail(table, email) == {u \in table : u.email = email}

\* (mutant) the row sent as it was read
WithPassword(u) == u

\* const { password: _, ...userWithoutPassword } = user
WithoutPassword(u) == [f \in DOMAIN u \ {"password"} |-> u[f]]

\* SELECT id, email, name, avatar, bio, theme FROM users WHERE id = ?
SelectMe(table, id) ==
  {[id |-> u.id, email |-> u.email, name |-> u.name, avatar |-> u.avatar,
    bio |-> u.bio, theme |-> u.theme] : u \in {v \in table : v.id = id}}

\* ------------------------------------------------------------------ register
RegisterBudget ==
  userSeq + Cardinality({q \in Reqs : reqs[q].kind = "register" /\ InFlight(q)})
    < MaxUsers

StartRegister(r, s, email, password, name) ==
  /\ CanStart(r)
  /\ RegisterBudget
  /\ reqs' = [reqs EXCEPT ![r] =
       NewReq("register", s, [email |-> email, password |-> password, name |-> name],
              "hash")]
  /\ UNCHANGED <<isPostgres, apart, users, cv_history, userSeq, histSeq, now, uploads,
                 sessions, running, registered>>

\* bcrypt.hash resolves; the INSERT is issued
RegisterHash(r, salt) ==
  /\ CanStep(r, "register", "hash")
  /\ reqs' = [reqs EXCEPT ![r] =
       Goto(@, "insert", [hashedPassword |-> BcryptHash(@.body.password, salt)])]
  /\ running' = Yields(r)
  /\ UNCHANGED <<isPostgres, apart, users, cv_history, userSeq, histSeq, now, uploads,
                 sessions, registered>>

\* the INSERT runs; a UNIQUE violation throws into the catch block
RegisterInsert(r) ==
  /\ CanStep(r, "register", "insert")
  /\ LET q == reqs[r]
         info == RunInsertUser(users, userSeq + 1, q.body.email,
                               q.loc.hashedPassword, q.body.name) IN
     IF info.threw
     THEN /\ reqs' = [reqs EXCEPT ![r] =
               Respond(@, 400, [error |-> "User already exists or invalid data"])]
          /\ running' = 0
          /\ users' = info.table
          /\ UNCHANGED <<userSeq, registered>>
     ELSE /\ users' = info.table
          /\ userSeq' = userSeq + 1
          /\ registered' = registered \cup
               {[id |-> userSeq + 1, email |-> q.body.email,
                 password |-> q.body.password]}
          /\ reqs' = [reqs EXCEPT ![r] =
               Goto(@, "select",
                    [lastInsertRowid |-> LastInsertRowid(info.table, userSeq + 1)])]
          /\ running' = Yields(r)
  /\ UNCHANGED <<isPostgres, apart, cv_history, histSeq, now, uploads, sessions>>

\* the read-back SELECT runs
RegisterSelect(r) ==
  /\ CanStep(r, "register", "select")
  /\ LET rows == SelectRegistered(users, reqs[r].loc.lastInsertRowid) IN
     IF rows = {}
     THEN /\ reqs' = [reqs EXCEPT ![r] =
               Respond(@, 400, [error |-> "User already exists or invalid data"])]
          /\ running' = 0
     ELSE /\ \E user \in rows :
               reqs' = [reqs EXCEPT ![r] = Goto(@, "respond", [user |-> user])]
          /\ running' = Yields(r)
  /\ UNCHANGED <<isPostgres, apart, users, cv_history, userSeq, histSeq, now, uploads,
                 sessions, registered>>

\* req.session.userId = user.id; res.json(user): the session is saved on end
RegisterRespond(r) ==
  /\ CanStep(r, "register", "respond")
  /\ sessions' = [sessions EXCEPT ![reqs[r].sess] = reqs[r].loc.user.id]
  /\ reqs' = [reqs EXCEPT ![r] = Respond(@, 200, @.loc.user)]
  /\ running' = 0
  /\ UNCHANGED <<isPostgres, apart, users, cv_history, userSeq, histSeq, now, uploads,
                 registered>>

\* ------------------------------------------------------------------ login
StartLogin(r, s, email, password) ==
  /\ CanStart(r)
  /\ reqs' = [reqs EXCEPT ![r] =
       NewReq("login", s, [email |-> email, password |-> password], "select")]
  /\ running' = Yields(r)
  /\ UNCHANGED <<isPostgres, apart, users, cv_history, userSeq, histSeq, now, uploads,
                 sessions, registered>>

\* the SELECT runs; without a row the && short-circuits to the 401
LoginSelect(r) ==
  /\ CanStep(r, "login", "select")
  /\ LET rows == SelectByEmail(users, reqs[r].body.email) IN
     IF rows = {}
     THEN reqs' = [reqs EXCEPT ![r] =
            Respond(@, 401, [error |-> "Invalid credentials"])]
     ELSE \E user \in rows :
            reqs' = [reqs EXCEPT ![r] = Goto(@, "compare", [user |-> user])]
  /\ running' = 0
  /\ UNCHANGED <<isPostgres, apart, users, cv_history, userSeq, histSeq, now, uploads,
                 sessions, registered>>

\* (mutant) userId set before the comparison is looked at
SessionAfterLoginAttempt(store, s, user, matched) == [store EXCEPT ![s] = user.id]

\* the session store after the login: userId is set in the matching branch only
SessionAfterLogin(store, s, user, matched) ==
  IF matched THEN [store EXCEPT ![s] = user.id] ELSE store

\* bcrypt.compare resolves
LoginCompare(r) ==
  /\ CanStep(r, "login", "compare")
  /\ LET q == reqs[r]
         matched == BcryptCompare(q.body.password, q.loc.user.password) IN
     /\ sessions' = SessionAfterLogin(sessions, q.sess, q.loc.user, matched)
     /\ reqs' = [reqs EXCEPT ![r] =
          IF matched THEN Respond(@, 200, WithoutPassword(q.loc.user))
          ELSE Respond(@, 401, [error |-> "Invalid credentials"])]
  /\ running' = 0
  /\ UNCHANGED <<isPostgres, apart, users, cv_history, userSeq, histSeq, now, uploads,
                 registered>>

\* ------------------------------------------------------------------ me, logout
Unauthorized(q, msg) == Respond(q, 401, [error |-> msg])

StartMe(r, s) ==
  /\ CanStart(r)
  /\ IF Authenticated(sessions[s])
     THEN /\ reqs' = [reqs EXCEPT ![r] = NewReq("me", s, <<>>, "select")]
          /\ running' = Yields(r)
     ELSE /\ reqs' = [reqs EXCEPT ![r] =
               Unauthorized(NewReq("me", s, <<>>, "start"), "Not authenticated")]
          /\ UNCHANGED running
  /\ UNCHANGED <<isPostgres, apart, users, cv_history, userSeq, histSeq, now, uploads,
                 sessions, registered>>

\* res.json(user): a missing row serialises as an empty body
MeSelect(r) ==
  /\ CanStep(r, "me", "select")
  /\ LET rows == SelectMe(users, reqs[r].uid) IN
     IF rows = {}
     THEN reqs' = [reqs EXCEPT ![r] = Respond(@, 200, <<>>)]
     ELSE \E user \in rows : reqs' = [reqs EXCEPT ![r] = Respond(@, 200, user)]
  /\ running' = 0
  /\ UNCHANGED <<isPostgres, apart, users, cv_history, userSeq, histSeq, now, uploads,
                 sessions, registered>>

\* ------------------------------------------------------------------ logout
\* (mutant) the session is left as it is
DestroyNothing(store, s) == store

\* req.session.destroy: the session leaves the store
Destroy(store, s) == [store EXCEPT ![s] = 0]

\* (mutant) 401 for a session that is not bound to an account
LogoutResponseGuarded(userId) ==
  IF userId = 0 THEN [status |-> 401, body |-> [error |-> "Unauthorized"]]
  ELSE [status |-> 200, body |-> [success |-> TRUE]]

\* res.json({ success: true }), whatever the session held
LogoutResponse(userId) == [status |-> 200, body |-> [success |-> TRUE]]

\* req.session.destroy(cb): the store entry is deleted, then the callback responds
Logout(r, s) ==
  /\ CanStart(r)
  /\ sessions' = Destroy(sessions, s)
  /\ LET res == LogoutResponse(sessions[s]) IN
     reqs' = [reqs EXCEPT ![r] =
       Respond(NewReq("logout", s, <<>>, "start"), res.status, res.body)]
  /\ UNCHANGED <<isPostgres, apart, users, cv_history, userSeq, histSeq, now, uploads,
                 running, registered>>

\* ------------------------------------------------------------------ profile
\* a parameter that is undefined is bound as NULL (pg)
BindParam(v) == IF v = Undefined THEN Null ELSE v

\* better-sqlite3 binds numbers, strings, bigints, buffers and null only: a
\* parameter that is undefined makes the statement throw a TypeError
BindThrows(params) ==
  ~isPostgres /\ \E i \in DOMAIN params : params[i] = Undefined

\* theme || 'light'
ThemeOrLight(theme) == IF theme \in {Undefined, Null, ""} THEN "light" ELSE theme

\* UPDATE users SET name = ?, bio = ?, theme = ? WHERE id = ?
UpdateProfile(table, name, bio, theme, id) ==
  {IF u.id = id
   THEN [u EXCEPT !.name = BindParam(name), !.bio = BindParam(bio),
                  !.theme = BindParam(theme)]
   ELSE u : u \in table}

StartProfile(r, s, name, bio, theme) ==
  /\ CanStart(r)
  /\ LET q == NewReq("profile", s, [name |-> name, bio |-> bio, theme |-> theme],
                     "update") IN
     IF Authenticated(sessions[s])
     THEN /\ reqs' = [reqs EXCEPT ![r] = q]
          /\ running' = Yields(r)
     ELSE /\ reqs' = [reqs EXCEPT ![r] = Unauthorized(q, "Unauthorized")]
          /\ UNCHANGED running
  /\ UNCHANGED <<isPostgres, apart, users, cv_history, userSeq, histSeq, now, uploads,
                 sessions, registered>>

ProfileUpdate(r) ==
  /\ CanStep(r, "profile", "update")
  /\ LET q == reqs[r] IN
     IF BindThrows(<<q.body.name, q.body.bio, ThemeOrLight(q.body.theme)>>)
     THEN /\ reqs' = [reqs EXCEPT ![r] = Reject(@)]
          /\ UNCHANGED users
     ELSE /\ users' = UpdateProfile(users, q.body.name, q.body.bio,
                                    ThemeOrLight(q.body.theme), q.uid)
          /\ reqs' = [reqs EXCEPT ![r] = Respond(@, 200, [success |-> TRUE])]
  /\ running' = 0
  /\ UNCHANGED <<isPostgres, apart, cv_history, userSeq, histSeq, now, uploads,
                 sessions, registered>>

\* ------------------------------------------------------------------ avatar
\* multer.diskStorage filename: `${Date.now()}-${file.originalname}`
Filename(t, originalname) == ToString(t) \o "-" \o originalname

\* `/uploads/avatars/${req.file?.filename}`
AvatarPath(filename) == "/uploads/avatars/" \o filename

\* UPDATE users SET avatar = ? WHERE id = ?
UpdateAvatar(table, avatar, id) ==
  {IF u.id = id THEN [u EXCEPT !.avatar = avatar] ELSE u : u \in table}

\* the request arrives; upload.single("avatar") starts reading the body
\* file: the "avatar" part of the multipart body, its originalname and declared
\* mimetype; both are Undefined when the body has no such part
StartAvatar(r, s, file) ==
  /\ CanStart(r)
  /\ reqs' = [reqs EXCEPT ![r] = NewReq("avatar", s, file, "upload")]
  /\ UNCHANGED <<isPostgres, apart, users, cv_history, userSeq, histSeq, now, uploads,
                 sessions, running, registered>>

\* multer has stored the file (if any), whatever its mimetype: upload has no
\* fileFilter; the handler runs
AvatarUpload(r) ==
  /\ CanStep(r, "avatar", "upload")
  /\ LET q == reqs[r]
         filename == IF q.body.originalname = Undefined THEN Undefined
                     ELSE Filename(now, q.body.originalname) IN
     /\ uploads' = IF filename = Undefined THEN uploads ELSE uploads \cup {filename}
     /\ IF Authenticated(q.uid)
        THEN /\ reqs' = [reqs EXCEPT ![r] =
                  Goto(@, "update", [avatarPath |-> AvatarPath(filename)])]
             /\ running' = Yields(r)
        ELSE /\ reqs' = [reqs EXCEPT ![r] = Unauthorized(@, "Unauthorized")]
             /\ running' = 0
  /\ UNCHANGED <<isPostgres, apart, users, cv_history, userSeq, histSeq, now,
                 sessions, registered>>

AvatarUpdate(r) ==
  /\ CanStep(r, "avatar", "update")
  /\ LET q == reqs[r] IN
     /\ users' = UpdateAvatar(users, q.loc.avatarPath, q.uid)
     /\ reqs' = [reqs EXCEPT ![r] = Respond(@, 200, [avatar |-> q.loc.avatarPath])]
  /\ running' = 0
  /\ UNCHANGED <<isPostgres, apart, cv_history, userSeq, histSeq, now, uploads,
                 sessions, registered>>

\* ------------------------------------------------------------------ history
\* JSON.stringify(analysis): the text of the value; undefined stays undefined
JSONstringify(v) == IF v = Undefined THEN Undefined ELSE <<"json", v>>

\* JSON.parse(text)
JSONparse(text) == IF text = Null THEN Null ELSE text[2]

\* (mutant) an upsert: a record of that account with that payload is replaced
InsertOrMergeHistory(table, id, userId, cvText, jobDescription, analysisJson, t) ==
  {h \in table : ~(h.user_id = userId /\ h.cv_text = BindParam(cvText)
                     /\ h.job_description = BindParam(jobDescription))}
    \cup {[id |-> id, user_id |-> userId, cv_text |-> BindParam(cvText),
            job_description |-> BindParam(jobDescription),
            analysis_json |-> BindParam(analysisJson), created_at |-> t]}

\* INSERT INTO cv_history (user_id, cv_text, job_description, analysis_json)
InsertHistory(table, id, userId, cvText, jobDescription, analysisJson, t) ==
  table \cup {[id |-> id, user_id |-> userId, cv_text |-> BindParam(cvText),
               job_description |-> BindParam(jobDescription),
               analysis_json |-> BindParam(analysisJson), created_at |-> t]}

\* (mutant) the WHERE user_id = ? clause forgotten
SelectHistoryAnyOwner(table, userId) == table

\* SELECT * FROM cv_history WHERE user_id = ?
SelectHistory(table, userId) == {h \in table : h.user_id = userId}

\* ORDER BY created_at DESC: rows of equal created_at come in any order
OrderedByCreatedAtDesc(rows) ==
  {sq \in [1..Cardinality(rows) -> rows] :
     /\ \A i, j \in DOMAIN sq : i # j => sq[i] # sq[j]
     /\ \A i, j \in DOMAIN sq : i < j => sq[i].created_at >= sq[j].created_at}

\* history.map((h) => ({ ...h, analysis: JSON.parse(h.analysis_json) })); the
\* response body holds the array as its rows
WithAnalysis(sq) ==
  [i \in DOMAIN sq |->
     [f \in DOMAIN sq[i] \cup {"analysis"} |->
        IF f = "analysis" THEN JSONparse(sq[i].analysis_json) ELSE sq[i][f]]]

\* pgPool.query with a text parameter for the int4 column id: Postgres reads
\* the text as an int4 and raises an error when it is out of range; SQLite
\* compares by numeric affinity and raises nothing
QueryThrows(idText) == isPostgres /\ idText = TooBig

\* (mutant) the AND user_id = ? clause forgotten
DeleteHistoryById(table, idText, userId) == {h \in table : IdText(h.id) # idText}

\* (mutant) the statement never run
DeleteNothing(table, idText, userId) == table

\* DELETE FROM cv_history WHERE id = ? AND user_id = ?
DeleteHistory(table, idText, userId) ==
  {h \in table : ~(IdText(h.id) = idText /\ h.user_id = userId)}

SaveBudget ==
  histSeq + Cardinality({q \in Reqs : reqs[q].kind = "save" /\ InFlight(q)}) < MaxHist

StartSave(r, s, cvText, jobDescription, analysis) ==
  /\ CanStart(r)
  /\ SaveBudget
  /\ LET q == NewReq("save", s, [cvText |-> cvText, jobDescription |-> jobDescription,
                                 analysis |-> analysis], "insert") IN
     IF Authenticated(sessions[s])
     THEN /\ reqs' = [reqs EXCEPT ![r] = q]
          /\ running' = Yields(r)
     ELSE /\ reqs' = [reqs EXCEPT ![r] = Unauthorized(q, "Unauthorized")]
          /\ UNCHANGED running
  /\ UNCHANGED <<isPostgres, apart, users, cv_history, userSeq, histSeq, now, uploads,
                 sessions, registered>>

SaveInsert(r) ==
  /\ CanStep(r, "save", "insert")
  /\ LET q == reqs[r]
         analysisJson == JSONstringify(q.body.analysis) IN
     IF BindThrows(<<q.body.cvText, q.body.jobDescription, analysisJson>>)
     THEN /\ reqs' = [reqs EXCEPT ![r] = Reject(@)]
          /\ UNCHANGED <<cv_history, histSeq>>
     ELSE /\ cv_history' = InsertHistory(cv_history, histSeq + 1, q.uid,
                                         q.body.cvText, q.body.jobDescription,
                                         analysisJson, now)
          /\ histSeq' = histSeq + 1
          /\ reqs' = [reqs EXCEPT ![r] = Respond(@, 200, [success |-> TRUE])]
  /\ running' = 0
  /\ UNCHANGED <<isPostgres, apart, users, userSeq, now, uploads, sessions, registered>>

StartList(r, s) ==
  /\ CanStart(r)
  /\ LET q == NewReq("list", s, <<>>, "select") IN
     IF Authenticated(sessions[s])
     THEN /\ reqs' = [reqs EXCEPT ![r] = q]
          /\ running' = Yields(r)
     ELSE /\ reqs' = [reqs EXCEPT ![r] = Unauthorized(q, "Unauthorized")]
          /\ UNCHANGED running
  /\ UNCHANGED <<isPostgres, apart, users, cv_history, userSeq, histSeq, now, uploads,
                 sessions, registered>>

ListSelect(r) ==
  /\ CanStep(r, "list", "select")
  /\ \E history \in OrderedByCreatedAtDesc(SelectHistory(cv_history, reqs[r].uid)) :
       reqs' = [reqs EXCEPT ![r] = Respond(@, 200, [rows |-> WithAnalysis(history)])]
  /\ running' = 0
  /\ UNCHANGED <<isPostgres, apart, users, cv_history, userSeq, histSeq, now, uploads,
                 sessions, registered>>

\* the response of DELETE /api/history/:id does not look at what was deleted
DeleteResponse(before, after) == [status |-> 200, body |-> [success |-> TRUE]]

StartDelete(r, s, id) ==
  /\ CanStart(r)
  /\ LET q == NewReq("delete", s, [id |-> id], "delete") IN
     IF Authenticated(sessions[s])
     THEN /\ reqs' = [reqs EXCEPT ![r] = q]
          /\ running' = Yields(r)
     ELSE /\ reqs' = [reqs EXCEPT ![r] = Unauthorized(q, "Unauthorized")]
          /\ UNCHANGED running
  /\ UNCHANGED <<isPostgres, apart, users, cv_history, userSeq, histSeq, now, uploads,
                 sessions, registered>>

DeleteRun(r) ==
  /\ CanStep(r, "delete", "delete")
  /\ LET q == reqs[r]
         after == DeleteHistory(cv_history, q.body.id, q.uid)
         res == DeleteResponse(cv_history, after) IN
     IF QueryThrows(q.body.id)
     THEN /\ reqs' = [reqs EXCEPT ![r] = Reject(@)]
          /\ UNCHANGED cv_history
     ELSE /\ cv_history' = after
          /\ reqs' = [reqs EXCEPT ![r] = Respond(@, res.status, res.body)]
  /\ running' = 0
  /\ UNCHANGED <<isPostgres, apart, users, userSeq, histSeq, now, uploads, sessions,
                 registered>>

\* ------------------------------------------------------------------ clock
\* a second of CURRENT_TIMESTAMP passes
Tick ==
  /\ now < MaxNow
  /\ now' = now + 1
  /\ UNCHANGED <<isPostgres, apart, users, cv_history, userSeq, histSeq, uploads,
                 sessions, reqs, running, registered>>

\* ------------------------------------------------------------------ client
\* The handlers of App in one browser, whose cookie names the session Browser.
\* Each action is one handler run to its end against a server that handles
\* the request at once: the fetch, the route handler and the continuation.
Browser == "s1"

\* userData.bio || ''
BioOrEmpty(bio) == IF bio \in {Null, Undefined, ""} THEN "" ELSE bio

\* GET /api/history as the browser's session sees it; [] when res.ok is false
\* leaves the state alone
fetchHistory(state, table) ==
  IF Authenticated(sessions[Browser])
  THEN [state EXCEPT !.history = SelectHistory(table, sessions[Browser])]
  ELSE state

\* setUser(null)
LoggedOut(state) == [state EXCEPT !.user = 0]

\* the page is loaded: fresh state, then the effect asks /api/auth/me and, when
\* the session is logged in, fills the user, the profile form, the theme and
\* the history
PageLoad ==
  /\ IF Authenticated(sessions[Browser])
     THEN \E userData \in SelectMe(users, sessions[Browser]) :
            client' = fetchHistory(
              [NoClient EXCEPT !.user = userData.id,
                               !.profileName = userData.name,
                               !.profileBio = BioOrEmpty(userData.bio),
                               !.theme = ThemeOrLight(userData.theme)],
              cv_history)
     ELSE client' = NoClient
  /\ UNCHANGED <<isPostgres, users, cv_history, userSeq, histSeq, now, uploads,
                 sessions, reqs, running, registered, call, deploy>>

\* the Sign In button, which leads to the forms, is shown while user is null
\* setUser(userData); the profile form and the history are not touched
handleRegister(email, password, name, salt) ==
  /\ client.user = 0
  /\ ~client.isLoading
  /\ userSeq < MaxUsers
  /\ LET info == RunInsertUser(users, userSeq + 1, email,
                               BcryptHash(password, salt), name) IN
     IF info.threw
     THEN UNCHANGED <<users, userSeq, sessions, registered, client>>
     ELSE /\ users' = info.table
          /\ userSeq' = userSeq + 1
          /\ registered' = registered \cup
               {[id |-> userSeq + 1, email |-> email, password |-> password]}
          /\ sessions' = [sessions EXCEPT ![Browser] = userSeq + 1]
          /\ client' = [client EXCEPT !.user = userSeq + 1, !.isLoading = FALSE]
  /\ UNCHANGED <<isPostgres, cv_history, histSeq, now, uploads, reqs, running,
                 call, deploy>>

\* setUser(userData); setProfileName; setProfileBio; the history is not touched
handleLogin(email, password) ==
  /\ client.user = 0
  /\ ~client.isLoading
  /\ LET rows == {u \in SelectByEmail(users, email) :
                    BcryptCompare(password, u.password)} IN
     IF rows = {}
     THEN UNCHANGED <<sessions, client>>
     ELSE \E user \in rows :
            /\ sessions' = [sessions EXCEPT ![Browser] = user.id]
            /\ client' = [client EXCEPT !.user = user.id,
                                        !.profileName = user.name,
                                        !.profileBio = BioOrEmpty(user.bio),
                                        !.isLoading = FALSE]
  /\ UNCHANGED <<isPostgres, users, cv_history, userSeq, histSeq, now, uploads,
                 reqs, running, registered, call, deploy>>

\* the Sign Out button of the profile view, which is shown while user is set
\* await fetch('/api/auth/logout'); setUser(null)
handleLogout ==
  /\ client.user # 0
  /\ sessions' = Destroy(sessions, Browser)
  /\ client' = LoggedOut(client)
  /\ UNCHANGED <<isPostgres, users, cv_history, userSeq, histSeq, now, uploads,
                 reqs, running, registered, call, deploy>>

\* handleAnalyze has its result: if (user) saveToHistory(result), which posts the
\* record and on res.ok calls fetchHistory
saveToHistory(cvText, jobDescription, analysis) ==
  /\ client.user # 0
  /\ histSeq < MaxHist
  /\ IF Authenticated(sessions[Browser])
     THEN /\ cv_history' = InsertHistory(cv_history, histSeq + 1, sessions[Browser],
                                         cvText, jobDescription,
                                         JSONstringify(analysis), now)
          /\ histSeq' = histSeq + 1
          /\ client' = fetchHistory(client, cv_history')
     ELSE UNCHANGED <<cv_history, histSeq, client>>
  /\ UNCHANGED <<isPostgres, users, userSeq, now, uploads, sessions, reqs, running,
                 registered, call, deploy>>

\* the delete button of a listed record: on res.ok the record leaves the list
deleteHistoryItem(id) ==
  /\ client.user # 0
  /\ \E h \in client.history : h.id = id
  /\ IF Authenticated(sessions[Browser])
     THEN /\ cv_history' = DeleteHistory(cv_history, IdText(id), sessions[Browser])
          /\ client' = [client EXCEPT !.history = {h \in @ : h.id # id}]
     ELSE UNCHANGED <<cv_history, client>>
  /\ UNCHANGED <<isPostgres, users, userSeq, histSeq, now, uploads, sessions, reqs,
                 running, registered, call, deploy>>

\* the body of the profile update that toggleTheme posts
ThemeBody(state, newTheme) ==
  [name |-> state.profileName, bio |-> state.profileBio, theme |-> newTheme]

\* setTheme(newTheme); if (user) POST /api/profile/update
toggleTheme ==
  /\ LET newTheme == IF client.theme = "light" THEN "dark" ELSE "light"
         body == ThemeBody(client, newTheme) IN
     /\ client' = [client EXCEPT !.theme = newTheme]
     /\ IF client.user # 0 /\ Authenticated(sessions[Browser])
        THEN users' = UpdateProfile(users, body.name, body.bio,
                                    ThemeOrLight(body.theme), sessions[Browser])
        ELSE UNCHANGED users
  /\ UNCHANGED <<isPostgres, cv_history, userSeq, histSeq, now, uploads, sessions,
                 reqs, running, registered, call, deploy>>

\* The handlers that set isLoading, each in two steps: the click up to the
\* await, and the continuation once the awaited request has its answer
\* (try, then finally).  inflight holds the requests awaited; clicks numbers
\* them; shown[tab] is the number of the request whose result the tab shows.
Click(state, kind, file) ==
  [state EXCEPT !.isLoading = TRUE,
                !.clicks = @ + 1,
                !.inflight = @ \cup
                  {[kind |-> kind, no |-> state.clicks + 1, file |-> file]}]

\* finally { setIsLoading(false) }
Settled(state, q) ==
  [state EXCEPT !.isLoading = FALSE, !.inflight = @ \ {q}]

\* handleGenerateCoverLetter, handleGenerateInterview (handleAnalyze,
\* handleGenerateRoadmap, handleOptimizeLinkedIn and handleFindJobs have the
\* same shape): the button is disabled while isLoading
handleGenerate(tab) ==
  /\ ~client.isLoading
  /\ client.clicks < MaxClicks
  /\ client' = Click(client, tab, Undefined)
  /\ UNCHANGED <<isPostgres, users, cv_history, userSeq, histSeq, now, uploads,
                 sessions, reqs, running, registered, call, deploy>>

\* the collaborator answers: setCoverLetter(result) / setInterviewQuestions(result),
\* then finally
GenerateSettles(q) ==
  /\ q \in client.inflight
  /\ q.kind \in Tabs
  /\ client' = [Settled(client, q) EXCEPT !.shown[q.kind] = q.no]
  /\ UNCHANGED <<isPostgres, users, cv_history, userSeq, histSeq, now, uploads,
                 sessions, reqs, running, registered, call, deploy>>

\* handleAvatarUpload: the file input of the profile view (shown while user is
\* set) is not disabled by isLoading
handleAvatarUpload(originalname) ==
  /\ client.user # 0
  /\ client.clicks < MaxClicks
  /\ client' = Click(client, "avatar", originalname)
  /\ UNCHANGED <<isPostgres, users, cv_history, userSeq, histSeq, now, uploads,
                 sessions, reqs, running, registered, call, deploy>>

\* POST /api/profile/avatar is handled and answered; then finally
AvatarSettles(q) ==
  /\ q \in client.inflight
  /\ q.kind = "avatar"
  /\ uploads' = uploads \cup {Filename(now, q.file)}
  /\ IF Authenticated(sessions[Browser])
     THEN users' = UpdateAvatar(users, AvatarPath(Filename(now, q.file)),
                                sessions[Browser])
     ELSE UNCHANGED users
  /\ client' = Settled(client, q)
  /\ UNCHANGED <<isPostgres, cv_history, userSeq, histSeq, now, sessions, reqs,
                 running, registered, call, deploy>>

\* ------------------------------------------------------------------ specifications
Emails == {"a@x", "b@x"}
Names == {"A", "B"}
HistoryIds == {IdText(i) : i \in 1..MaxHist} \cup {TooBig}

\* the media type a client declares for a file of that name
MimeOf(f) ==
  CASE f = "me.png" -> "image/png"
    [] f = "notes.txt" -> "text/plain"
    [] OTHER -> Undefined

\* ------------------------------------------------------ storage failure
\* the positions at which a handler awaits db.get, db.all or db.run
AwaitsDb(q) ==
  \/ q.kind = "register" /\ q.pc \in {"insert", "select"}
  \/ q.kind = "login" /\ q.pc = "select"
  \/ q.kind = "me" /\ q.pc = "select"
  \/ q.kind = "profile" /\ q.pc = "update"
  \/ q.kind = "avatar" /\ q.pc = "update"
  \/ q.kind = "save" /\ q.pc = "insert"
  \/ q.kind = "list" /\ q.pc = "select"
  \/ q.kind = "delete" /\ q.pc = "delete"

\* The backend fails the query (connection lost, disk error): the awaited
\* promise rejects and nothing is written.  Only the register handler awaits
\* inside a try; its catch block answers 400.
QueryFails(r) ==
  /\ AwaitsDb(reqs[r])
  /\ running \in {0, r}
  /\ reqs' = [reqs EXCEPT ![r] =
       IF @.kind = "register"
       THEN Respond(@, 400, [error |-> "User already exists or invalid data"])
       ELSE Reject(@)]
  /\ running' = 0
  /\ UNCHANGED <<isPostgres, apart, users, cv_history, userSeq, histSeq, now, uploads,
                 sessions, registered>>

\* The steps of the handlers, for the requests of a set of slots.
Steps(R) ==
  \/ \E r \in R, salt \in Salts : RegisterHash(r, salt)
  \/ \E r \in R : RegisterInsert(r)
  \/ \E r \in R : RegisterSelect(r)
  \/ \E r \in R : RegisterRespond(r)
  \/ \E r \in R : LoginSelect(r)
  \/ \E r \in R : LoginCompare(r)
  \/ \E r \in R : MeSelect(r)
  \/ \E r \in R : ProfileUpdate(r)
  \/ \E r \in R : AvatarUpload(r)
  \/ \E r \in R : AvatarUpdate(r)
  \/ \E r \in R : SaveInsert(r)
  \/ \E r \in R : ListSelect(r)
  \/ \E r \in R : DeleteRun(r)

\* Every route, one request at a time, one account.
Next ==
  \/ \E s \in Sessions : StartRegister(1, s, "a@x", PwShort, "A")
  \/ \E s \in Sessions, p \in {PwShort, PwShortAlt} : StartLogin(1, s, "a@x", p)
  \/ \E s \in Sessions : StartMe(1, s)
  \/ \E s \in Sessions : Logout(1, s)
  \/ \E s \in Sessions : StartProfile(1, s, "B", "bio", "dark")
  \/ \E s \in Sessions, f \in {"me.png", Undefined} :
       StartAvatar(1, s, [originalname |-> f, mimetype |-> MimeOf(f)])
  \/ \E s \in Sessions : StartSave(1, s, "cv", "job", "analysis")
  \/ \E s \in Sessions : StartList(1, s)
  \/ \E s \in Sessions, id \in HistoryIds : StartDelete(1, s, id)
  \/ Steps({1})

Spec == Init /\ [][Next]_vars

\* Registration: concurrent registrations with any email, password and name.
NextRegister ==
  \/ \E r \in Reqs, s \in Sessions, e \in Emails, p \in {PwShort, PwShortAlt},
        n \in Names : StartRegister(r, s, e, p, n)
  \/ \E r \in Reqs, salt \in Salts : RegisterHash(r, salt)
  \/ \E r \in Reqs : RegisterInsert(r)
  \/ \E r \in Reqs : RegisterSelect(r)
  \/ \E r \in Reqs : RegisterRespond(r)

SpecRegister == Init /\ [][NextRegister]_vars

\* Accounts: a registration racing with logins and profile updates.
NextAccounts ==
  \/ \E r \in Reqs, s \in Sessions : StartRegister(r, s, "a@x", PwShort, "A")
  \/ \E r \in Reqs, s \in Sessions : StartLogin(r, s, "a@x", PwShort)
  \/ \E r \in Reqs, s \in Sessions : StartProfile(r, s, "C", "bio", "dark")
  \/ \E r \in Reqs, s \in Sessions : StartMe(r, s)
  \/ \E r \in Reqs, salt \in Salts : RegisterHash(r, salt)
  \/ \E r \in Reqs : RegisterInsert(r)
  \/ \E r \in Reqs : RegisterSelect(r)
  \/ \E r \in Reqs : RegisterRespond(r)
  \/ \E r \in Reqs : LoginSelect(r)
  \/ \E r \in Reqs : LoginCompare(r)
  \/ \E r \in Reqs : ProfileUpdate(r)
  \/ \E r \in Reqs : MeSelect(r)

SpecAccounts == Init /\ [][NextAccounts]_vars

\* History: two accounts saving, listing and deleting concurrently.
NextHistory ==
  \/ \E r \in Reqs, s \in Sessions, e \in Emails : StartRegister(r, s, e, PwShort, "A")
  \/ \E r \in Reqs, s \in Sessions : StartSave(r, s, "cv", "job", "analysis")
  \/ \E r \in Reqs, s \in Sessions : StartList(r, s)
  \/ \E r \in Reqs, s \in Sessions, id \in HistoryIds : StartDelete(r, s, id)
  \/ \E r \in Reqs, salt \in Salts : RegisterHash(r, salt)
  \/ \E r \in Reqs : RegisterInsert(r)
  \/ \E r \in Reqs : RegisterSelect(r)
  \/ \E r \in Reqs : RegisterRespond(r)
  \/ \E r \in Reqs : SaveInsert(r)
  \/ \E r \in Reqs : ListSelect(r)
  \/ \E r \in Reqs : DeleteRun(r)

SpecHistory == Init /\ [][NextHistory]_vars

\* Passwords: registration and login with short and long passwords.
NextPasswords ==
  \/ \E r \in Reqs, s \in Sessions, p \in {PwShort, PwLong} :
       StartRegister(r, s, "a@x", p, "A")
  \/ \E r \in Reqs, s \in Sessions, p \in {PwShort, PwShortAlt, PwLong, PwLongAlt} :
       StartLogin(r, s, "a@x", p)
  \/ \E r \in Reqs, salt \in Salts : RegisterHash(r, salt)
  \/ \E r \in Reqs : RegisterInsert(r)
  \/ \E r \in Reqs : RegisterSelect(r)
  \/ \E r \in Reqs : RegisterRespond(r)
  \/ \E r \in Reqs : LoginSelect(r)
  \/ \E r \in Reqs : LoginCompare(r)

SpecPasswords == Init /\ [][NextPasswords]_vars

\* Saves: one account saving, with or without an analysis, and listing, while
\* the storage clock ticks.
NextSaves ==
  \/ \E r \in Reqs : StartRegister(r, "s1", "a@x", PwShort, "A")
  \/ \E r \in Reqs, a \in {"analysis", Undefined} :
       StartSave(r, "s1", "cv", "job", a)
  \/ \E r \in Reqs : StartList(r, "s1")
  \/ \E r \in Reqs, salt \in Salts : RegisterHash(r, salt)
  \/ \E r \in Reqs : RegisterInsert(r)
  \/ \E r \in Reqs : RegisterSelect(r)
  \/ \E r \in Reqs : RegisterRespond(r)
  \/ \E r \in Reqs : SaveInsert(r)
  \/ \E r \in Reqs : ListSelect(r)
  \/ Tick

SpecSaves == Init /\ [][NextSaves]_vars

\* Sessions: every route on two sessions, two requests in flight, one account;
\* the profile is saved with the values it has, which keeps the table small.
NextSessions ==
  \/ \E r \in Reqs, s \in Sessions : StartRegister(r, s, "a@x", PwShort, "A")
  \/ \E r \in Reqs, s \in Sessions : StartLogin(r, s, "a@x", PwShort)
  \/ \E r \in Reqs, s \in Sessions : StartMe(r, s)
  \/ \E r \in Reqs, s \in Sessions : Logout(r, s)
  \/ \E r \in Reqs, s \in Sessions : StartProfile(r, s, "A", Null, "light")
  \/ \E r \in Reqs, s \in Sessions :
       StartAvatar(r, s, [originalname |-> "me.png", mimetype |-> MimeOf("me.png")])
  \/ \E r \in Reqs, s \in Sessions : StartSave(r, s, "cv", "job", "analysis")
  \/ \E r \in Reqs, s \in Sessions : StartList(r, s)
  \/ \E r \in Reqs, s \in Sessions : StartDelete(r, s, IdText(1))
  \/ Steps(Reqs)

SpecSessions == Init /\ [][NextSessions]_vars

\* Validation: registrations and logins whose email or password may be empty.
PwEmpty == <<>>

NextValidation ==
  \/ \E r \in Reqs, email \in {"", "a@x"}, password \in {PwEmpty, PwShort} :
        StartRegister(r, "s1", email, password, "A")
  \/ \E r \in Reqs, email \in {"", "a@x"}, password \in {PwEmpty, PwShort} :
        StartLogin(r, "s1", email, password)
  \/ \E r \in Reqs, salt \in Salts : RegisterHash(r, salt)
  \/ \E r \in Reqs : RegisterInsert(r)
  \/ \E r \in Reqs : RegisterSelect(r)
  \/ \E r \in Reqs : RegisterRespond(r)
  \/ \E r \in Reqs : LoginSelect(r)
  \/ \E r \in Reqs : LoginCompare(r)

SpecValidation == Init /\ [][NextValidation]_vars

\* Order: one account saves one record after the other (a save begins when the
\* one before has been answered) and lists them, while the clock may tick.
NextOrder ==
  \/ StartRegister(1, "s1", "a@x", PwShort, "A")
  \/ StartSave(1, "s1", "cv", "job", "analysis")
  \/ \E r \in Reqs : StartList(r, "s1")
  \/ \E salt \in Salts : RegisterHash(1, salt)
  \/ RegisterInsert(1)
  \/ RegisterSelect(1)
  \/ RegisterRespond(1)
  \/ SaveInsert(1)
  \/ \E r \in Reqs : ListSelect(r)
  \/ Tick

SpecOrder == Init /\ [][NextOrder]_vars

\* Avatar: one account uploads an image, a text file, or no file.
NextAvatar ==
  \/ \E r \in Reqs : StartRegister(r, "s1", "a@x", PwShort, "A")
  \/ \E r \in Reqs, s \in Sessions, f \in {"me.png", "notes.txt", Undefined} :
       StartAvatar(r, s, [originalname |-> f, mimetype |-> MimeOf(f)])
  \/ \E r \in Reqs : StartMe(r, "s1")
  \/ \E r \in Reqs, salt \in Salts : RegisterHash(r, salt)
  \/ \E r \in Reqs : RegisterInsert(r)
  \/ \E r \in Reqs : RegisterSelect(r)
  \/ \E r \in Reqs : RegisterRespond(r)
  \/ \E r \in Reqs : AvatarUpload(r)
  \/ \E r \in Reqs : AvatarUpdate(r)
  \/ \E r \in Reqs : MeSelect(r)
  \/ Tick

SpecAvatar == Init /\ [][NextAvatar]_vars

\* Failure: every route, one request at a time, with a storage that can fail
\* any query.
NextFailure ==
  \/ Next
  \/ QueryFails(1)

SpecFailure == Init /\ [][NextFailure]_vars

\* Deployments: two servers started with any SESSION_SECRET each issue session
\* cookies and are presented with the cookies of both.
Deployments == {1, 2}
SecretValues == {"k1", "k2", "k3"}

InitDeploy ==
  /\ isPostgres \in BOOLEAN
  /\ users = {}
  /\ cv_history = {}
  /\ userSeq = 0
  /\ histSeq = 0
  /\ now = 0
  /\ uploads = {}
  /\ sessions = [s \in Sessions |-> 0]
  /\ reqs = [r \in Reqs |-> Idle]
  /\ running = 0
  /\ registered = {}
  /\ call = NoCall
  /\ \E env \in [Deployments -> SecretValues] :
       deploy = [env |-> env, issued |-> {}, verified |-> {}]
  /\ client = NoClient

NextDeploy ==
  \/ \E d \in Deployments, sid \in Sessions : Issue(d, sid)
  \/ \E d, by \in Deployments, sid \in Sessions :
       Verify(d, [by |-> by, cookie |-> Sign(sid, SessionSecret(deploy.env[by]))])

SpecDeploy == InitDeploy /\ [][NextDeploy]_vars

\* Browser: one browser in which two people register, log in and out, reload
\* the page, analyse (which saves), delete listed records and toggle the theme.
NextBrowser ==
  \/ PageLoad
  \/ \E e \in Emails, n \in Names, salt \in Salts : handleRegister(e, PwShort, n, salt)
  \/ \E e \in Emails : handleLogin(e, PwShort)
  \/ handleLogout
  \/ saveToHistory("cv", "job", "analysis")
  \/ \E id \in 1..MaxHist : deleteHistoryItem(id)
  \/ toggleTheme

SpecBrowser == Init /\ [][NextBrowser]_vars

\* Loading: one browser in which a user registers, asks for cover letters and
\* interview questions and uploads avatars, with the answers in any order.
NextLoading ==
  \/ \E salt \in Salts : handleRegister("a@x", PwShort, "A", salt)
  \/ \E tab \in Tabs : handleGenerate(tab)
  \/ \E tab \in Tabs, no \in 1..MaxClicks :
       GenerateSettles([kind |-> tab, no |-> no, file |-> Undefined])
  \/ handleAvatarUpload("me.png")
  \/ \E no \in 1..MaxClicks :
       AvatarSettles([kind |-> "avatar", no |-> no, file |-> "me.png"])
  \/ Tick

SpecLoading == Init /\ [][NextLoading]_vars

\* Profile: one account saves its profile with any subset of name, bio and theme
\* and reads it back.
NextProfile ==
  \/ \E r \in Reqs : StartRegister(r, "s1", "a@x", PwShort, "A")
  \/ \E r \in Reqs, name \in {"B", Undefined}, bio \in {"bio", Undefined},
        theme \in {"dark", Undefined} : StartProfile(r, "s1", name, bio, theme)
  \/ \E r \in Reqs : StartMe(r, "s1")
  \/ \E r \in Reqs, salt \in Salts : RegisterHash(r, salt)
  \/ \E r \in Reqs : RegisterInsert(r)
  \/ \E r \in Reqs : RegisterSelect(r)
  \/ \E r \in Reqs : RegisterRespond(r)
  \/ \E r \in Reqs : ProfileUpdate(r)
  \/ \E r \in Reqs : MeSelect(r)

SpecProfile == Init /\ [][NextProfile]_vars

\* Adapter: one call of get, all or run with a query text of up to MaxSql tokens
\* and one parameter for each placeholder.
Tokens == {"?", "x", "INSERT", "insert"}
Texts == UNION {[1..n -> Tokens] : n \in 0..MaxSql}
Placeholders(sql) == {j \in DOMAIN sql : sql[j] = "?"}
ParamsFor(sql) == [i \in 1..Cardinality(Placeholders(sql)) |-> "p" \o ToString(i)]

InitAdapter ==
  /\ isPostgres \in BOOLEAN
  /\ users = {}
  /\ cv_history = {}
  /\ userSeq = 0
  /\ histSeq = 0
  /\ now = 0
  /\ uploads = {}
  /\ sessions = [s \in Sessions |-> 0]
  /\ reqs = [r \in Reqs |-> Idle]
  /\ running = 0
  /\ registered = {}
  /\ \E method \in {"get", "all", "run"}, sql \in Texts :
       call = [method |-> method, sql |-> sql, params |-> ParamsFor(sql),
               state |-> "issued", text |-> <<>>, bound |-> <<>>]
  /\ deploy = NoDeploy
  /\ client = NoClient

NextAdapter == Query

SpecAdapter == InitAdapter /\ [][NextAdapter]_vars

\* ------------------------------------------------------------------ claims
Success == [status |-> 200, body |-> [success |-> TRUE]]

\* request r takes its step from position pc and responds
Completes(r, kind, pc) ==
  reqs[r].kind = kind /\ reqs[r].pc = pc /\ reqs'[r].pc = "done"

IsDone(r, kind) == reqs[r].kind = kind /\ reqs[r].pc = "done"

\* C1: whatever the interleaving of two accounts' saves, every record that
\* GET /api/history returns to an account has that account as user_id, and a
\* saved record gets the saving account as user_id.
ListedOnlyOwn ==
  \A r \in Reqs :
    (IsDone(r, "list") /\ reqs[r].res.status = 200)
      => \A i \in DOMAIN reqs[r].res.body.rows :
           reqs[r].res.body.rows[i].user_id = reqs[r].uid

SavedAsOwn ==
  \A r \in Reqs :
    Completes(r, "save", "insert")
      => /\ cv_history \subseteq cv_history'
         /\ \A h \in cv_history' \ cv_history : h.user_id = reqs[r].uid

C1_HistoryIsolation == []ListedOnlyOwn /\ [][SavedAsOwn]_vars

C1_Witness ==
  \E r \in Reqs :
    /\ IsDone(r, "list") /\ reqs[r].res.status = 200
    /\ reqs[r].res.body.rows # <<>>
    /\ \E h \in cv_history : h.user_id # reqs[r].uid

\* C2: a DELETE with the id of a record of another account leaves every record
\* in storage as it was and responds 200 {success: true}.
NamesForeignRecord(r) ==
  \E h \in cv_history :
    IdText(h.id) = reqs[r].body.id /\ h.user_id # reqs[r].uid

C2_ForeignDeleteIsNoOp ==
  [][\A r \in Reqs :
       (Completes(r, "delete", "delete") /\ NamesForeignRecord(r))
         => /\ cv_history' = cv_history
            /\ users' = users
            /\ reqs'[r].res = Success]_vars

C2_Witness ==
  \E r \in Reqs :
    /\ IsDone(r, "delete") /\ reqs[r].res = Success
    /\ NamesForeignRecord(r)

\* C3: an authenticated DELETE responds 200 {success: true} whether the id names
\* an own record, a foreign record or none, so the response does not depend on
\* other accounts' records; repeating it would give the same response and
\* leave storage as the first did.
C3_DeleteDoesNotProbe ==
  [][\A r \in Reqs :
       (reqs[r].kind = "delete" /\ reqs[r].pc = "delete" /\ reqs'[r].pc # "delete")
         => LET again == DeleteHistory(cv_history', reqs[r].body.id, reqs[r].uid) IN
            /\ reqs'[r].pc = "done"
            /\ reqs'[r].res = Success
            /\ again = cv_history'
            /\ DeleteResponse(cv_history', again) = reqs'[r].res]_vars

\* C4: a registration whose email already belongs to an account ends with
\* status 400, changes no stored account and no other stored record, and does
\* not bind the requesting session.
DuplicateRegister(r) ==
  /\ reqs[r].kind = "register" /\ reqs[r].pc \in {"hash", "insert"}
  /\ \E u \in users : u.email = reqs[r].body.email

C4_DuplicateRegisterRejected ==
  [][\A r \in Reqs :
       (DuplicateRegister(r) /\ reqs'[r].pc # reqs[r].pc)
         => /\ users' = users
            /\ cv_history' = cv_history
            /\ sessions' = sessions
            /\ reqs'[r].pc \in {"insert", "done"}
            /\ reqs'[r].pc = "done" => reqs'[r].res.status = 400]_vars

C4_Witness ==
  \E r \in Reqs :
    /\ IsDone(r, "register") /\ reqs[r].res.status = 400
    /\ \E u \in users : u.email = reqs[r].body.email /\ u.name # reqs[r].body.name
    /\ sessions[reqs[r].sess] = 0

\* C5: no two accounts share an email; of the registrations for one email at
\* most one succeeds, and a registration ends with status 200 or with the 400
\* of the handler, also when two for the same new email are in flight at once.
C5_EmailUnique ==
  /\ \A u, v \in users : u.email = v.email => u = v
  /\ \A r \in Reqs : IsDone(r, "register") => reqs[r].res.status \in {200, 400}
  /\ \A r, q \in Reqs :
       (/\ IsDone(r, "register") /\ reqs[r].res.status = 200
        /\ IsDone(q, "register") /\ reqs[q].res.status = 200
        /\ reqs[r].body.email = reqs[q].body.email) => r = q

C5_Witness ==
  \E r, q \in Reqs :
    /\ reqs[r].kind = "register" /\ reqs[r].pc \in {"select", "respond"}
    /\ IsDone(q, "register") /\ reqs[q].res.status = 400
    /\ reqs[q].body.email = reqs[r].body.email
    /\ Cardinality({u \in users : u.email = reqs[r].body.email}) = 1

\* C6: without an authenticated session the profile update, the avatar upload
\* and the history save, list and delete respond 401 and leave the users and
\* cv_history tables unchanged.
Guarded == {"profile", "avatar", "save", "list", "delete"}

C6_UnauthenticatedRejected ==
  [][\A r \in Reqs :
       (/\ reqs'[r] # reqs[r]
        /\ reqs'[r].kind \in Guarded
        /\ reqs'[r].uid = 0)
         => /\ users' = users
            /\ cv_history' = cv_history
            /\ reqs'[r].pc \in {"upload", "done"}
            /\ reqs'[r].pc = "done" => reqs'[r].res.status = 401]_vars

C6_Witness ==
  \E r \in Reqs :
    /\ IsDone(r, "delete") /\ reqs[r].uid = 0 /\ reqs[r].res.status = 401
    /\ \E h \in cv_history : IdText(h.id) = reqs[r].body.id
    /\ users # {}

\* C7: a login whose email has no account, or whose password does not match
\* the stored hash of the account, responds 401 and leaves the session (and
\* every other session) as it was before the request.
FailingLogin(r) ==
  /\ reqs[r].kind = "login"
  /\ \/ reqs[r].pc = "select" /\ SelectByEmail(users, reqs[r].body.email) = {}
     \/ /\ reqs[r].pc = "compare"
        /\ ~ BcryptCompare(reqs[r].body.password, reqs[r].loc.user.password)

C7_FailedLoginKeepsSession ==
  [][\A r \in Reqs :
       (FailingLogin(r) /\ reqs'[r].pc # reqs[r].pc)
         => /\ sessions' = sessions
            /\ reqs'[r].pc = "done"
            /\ reqs'[r].res.status = 401]_vars

C7_Witness ==
  \E r \in Reqs :
    /\ IsDone(r, "login") /\ reqs[r].res.status = 401
    /\ reqs[r].uid # 0 /\ sessions[reqs[r].sess] = reqs[r].uid
    /\ \E u \in users : u.email = reqs[r].body.email

\* C8: a successful registration responds 200 with the id of the new account
\* and the email and name as submitted, and binds the requesting session to
\* that id, so that GET /api/auth/me on that session returns that account.
Submitted(r, id) ==
  [id |-> id, email |-> reqs[r].body.email, name |-> reqs[r].body.name]

C8_RegisterReturnsSubmitted ==
  [][\A r \in Reqs :
       Completes(r, "register", "respond")
         => LET id == reqs[r].loc.lastInsertRowid IN
            /\ reqs'[r].res = [status |-> 200, body |-> Submitted(r, id)]
            /\ sessions'[reqs[r].sess] = id
            /\ \E me \in SelectMe(users', sessions'[reqs[r].sess]) :
                 me.id = id /\ me.email = reqs[r].body.email]_vars

\* C9: no response body of any endpoint has a password field, in the body or
\* in a listed row, and the password column of a users row holds the bcrypt
\* hash of the submitted password, never the submitted password itself.
NoPasswordField(body) ==
  /\ "password" \notin DOMAIN body
  /\ "rows" \in DOMAIN body
       => \A i \in DOMAIN body.rows : "password" \notin DOMAIN body.rows[i]

C9_PasswordNeverExposed ==
  /\ \A r \in Reqs : reqs[r].pc = "done" => NoPasswordField(reqs[r].res.body)
  /\ \A u \in users : \A g \in registered :
       g.id = u.id
         => /\ u.password # g.password
            /\ \E salt \in Salts : u.password = BcryptHash(g.password, salt)

C9_Witness ==
  \E r \in Reqs :
    /\ IsDone(r, "login") /\ reqs[r].res.status = 200
    /\ \E u \in users : u.id = reqs[r].res.body.id /\ "password" \in DOMAIN u

\* C10: a login with the email and the password an account was registered
\* with responds 200 and binds the session to the account; a login with a
\* password that differs from the registered one in a single character
\* responds 401.
DiffersInOneCharacter(p, q) ==
  /\ Len(p) = Len(q)
  /\ Cardinality({i \in DOMAIN p : p[i] # q[i]}) = 1

C10_LoginMatchesExactPassword ==
  [][\A r \in Reqs :
       Completes(r, "login", "compare")
         => \A g \in registered :
              g.email = reqs[r].body.email
                => /\ g.password = reqs[r].body.password
                       => /\ reqs'[r].res.status = 200
                          /\ sessions'[reqs[r].sess] = g.id
                   /\ DiffersInOneCharacter(g.password, reqs[r].body.password)
                       => reqs'[r].res.status = 401]_vars

\* C11: after a save with (cvText, jobDescription, analysis) has run, the list
\* of the saving account holds a record whose cv text, job description and
\* parsed analysis are the values of the save, also when the analysis is absent.
RoundTrips(q, table) ==
  \E history \in OrderedByCreatedAtDesc(SelectHistory(table, q.uid)) :
    \E i \in DOMAIN history :
      LET h == WithAnalysis(history)[i] IN
      /\ h.cv_text = q.body.cvText
      /\ h.job_description = q.body.jobDescription
      /\ h.analysis = q.body.analysis

C11_SaveListRoundTrip ==
  [][\A r \in Reqs :
       (reqs[r].kind = "save" /\ reqs[r].pc = "insert" /\ reqs'[r].pc # "insert")
         => /\ reqs'[r].pc = "done"
            /\ reqs'[r].res = Success
            /\ RoundTrips(reqs[r], cv_history')]_vars

\* C12: when the owner deletes an own record, exactly that record leaves
\* cv_history (the owner's other records and every other account's records
\* stay), a list returns only records that are in cv_history, and the id of a
\* deleted record is never given to a new record: the record is absent from
\* every later list.
NamesOwnRecord(r) ==
  \E h \in cv_history :
    IdText(h.id) = reqs[r].body.id /\ h.user_id = reqs[r].uid

C12_OwnerDeleteRemoves ==
  [][/\ \A r \in Reqs :
          (Completes(r, "delete", "delete") /\ NamesOwnRecord(r))
            => /\ reqs'[r].res = Success
               /\ cv_history' = {h \in cv_history : IdText(h.id) # reqs[r].body.id}
               /\ Cardinality(cv_history') = Cardinality(cv_history) - 1
     /\ \A r \in Reqs :
          (Completes(r, "list", "select") /\ reqs'[r].res.status = 200)
            => \A i \in DOMAIN reqs'[r].res.body.rows :
                 \E h \in cv_history' : h.id = reqs'[r].res.body.rows[i].id
     /\ \A h \in cv_history' \ cv_history : h.id > histSeq]_vars

C12_Witness ==
  \E r \in Reqs :
    /\ IsDone(r, "delete") /\ reqs[r].res = Success
    /\ reqs[r].body.id \in {IdText(i) : i \in 1..histSeq}
    /\ \A h \in cv_history : IdText(h.id) # reqs[r].body.id
    /\ cv_history # {}

\* C13 (as claimed): a call with N placeholders and N parameters binds the i-th
\* parameter to the i-th placeholder on both backends, and the text sent to
\* Postgres is the query with its i-th ? replaced by $i and nothing else
\* changed.
Nth(sql, j) == Cardinality({k \in Placeholders(sql) : k <= j})

Renumbered(sql) ==
  [j \in DOMAIN sql |->
     IF sql[j] = "?" THEN "$" \o ToString(Nth(sql, j)) ELSE sql[j]]

BoundInOrder ==
  \A j \in DOMAIN call.sql :
    call.bound[j] = IF call.sql[j] = "?" THEN call.params[Nth(call.sql, j)]
                    ELSE call.sql[j]

C13_PlaceholdersOnly ==
  call.state = "sent"
    => /\ BoundInOrder
       /\ isPostgres => call.text = Renumbered(call.sql)

\* C13 (amended): the same, except that db.run sends an INSERT to Postgres
\* with RETURNING id added after the renumbered query.
IsInsertRun == call.method = "run" /\ StartsWithInsert(call.sql)

C13_PlaceholdersAndReturning ==
  call.state = "sent"
    => /\ BoundInOrder
       /\ (isPostgres /\ ~IsInsertRun) => call.text = Renumbered(call.sql)
       /\ (isPostgres /\ IsInsertRun)
            => call.text = Renumbered(call.sql) \o <<" RETURNING id">>
       /\ ~isPostgres => call.text = call.sql

C13_Witness ==
  /\ call.state = "sent" /\ isPostgres /\ IsInsertRun
  /\ Cardinality(Placeholders(call.sql)) > 1

\* C14: POST /api/profile/update is a partial update: each of name, bio and
\* theme that the request body does not specify keeps, in the row of the
\* account, the value it had before the request.
Row(table, id) == CHOOSE u \in table : u.id = id

C14_UnspecifiedFieldsKept ==
  [][\A r \in Reqs :
       (reqs[r].kind = "profile" /\ reqs[r].pc = "update" /\ reqs'[r].pc = "done")
         => LET q == reqs[r]
                before == Row(users, q.uid)
                after == Row(users', q.uid) IN
            /\ q.body.name = Undefined => after.name = before.name
            /\ q.body.bio = Undefined => after.bio = before.bio
            /\ q.body.theme = Undefined => after.theme = before.theme]_vars

\* C15: logout is idempotent: POST /api/auth/logout responds 200 {success: true}
\* whether or not the session is bound to an account; after it the session is
\* bound to no account, the other sessions and the storage are as before, and
\* a second logout in a row would leave that same state.
LogsOut(r) == reqs'[r].kind = "logout" /\ reqs'[r] # reqs[r]

C15_LogoutIdempotent ==
  [][\A r \in Reqs :
       LogsOut(r)
         => LET s == reqs'[r].sess IN
            /\ reqs'[r].pc = "done" /\ reqs'[r].res = Success
            /\ sessions'[s] = 0
            /\ \A o \in Sessions \ {s} : sessions'[o] = sessions[o]
            /\ Destroy(sessions', s) = sessions'
            /\ UNCHANGED <<users, cv_history, uploads, userSeq, histSeq>>]_vars

\* a logout on a session that was bound to no account, with an account stored
C15_Witness ==
  \E r \in Reqs :
    /\ IsDone(r, "logout") /\ reqs[r].uid = 0 /\ reqs[r].res = Success
    /\ sessions[reqs[r].sess] = 0
    /\ users # {}

\* C16: per session the authentication state goes Anonymous -> (successful
\* register or login) -> Authenticated -> (logout) -> Anonymous: a session
\* becomes bound only by a register or login that succeeds on it, becomes
\* unbound only by a logout on it, a logout always unbinds it, and a profile
\* or history request or GET /api/auth/me is answered 401 exactly when its
\* session is bound to no account at the moment the request arrives.
GuardedKinds == {"me", "profile", "avatar", "save", "list", "delete"}

Arrives(r) == ~InFlight(r) /\ reqs'[r] # reqs[r]

Refused(q) == q.pc = "done" /\ q.res.status = 401

\* the avatar route looks at the session once the upload has been received
AwaitsUpload(q) == q.kind = "avatar" /\ q.pc = "upload"

C16_SessionStateMachine ==
  [][/\ \A s \in Sessions :
          (sessions[s] = 0 /\ sessions'[s] # 0)
            => \E r \in Reqs :
                 /\ reqs[r].kind \in {"register", "login"} /\ reqs[r].sess = s
                 /\ InFlight(r)
                 /\ reqs'[r].pc = "done" /\ reqs'[r].res.status = 200
     /\ \A s \in Sessions :
          (sessions[s] # 0 /\ sessions'[s] = 0)
            => \E r \in Reqs : Logout(r, s)
     /\ \A r \in Reqs : LogsOut(r) => sessions'[reqs'[r].sess] = 0
     /\ \A r \in Reqs :
          (Arrives(r) /\ reqs'[r].kind \in GuardedKinds)
            => LET q == reqs'[r] IN
               /\ q.uid = sessions[q.sess]
               /\ q.uid = 0 => (Refused(q) \/ AwaitsUpload(q))
               /\ q.uid # 0 => ~Refused(q)
     /\ \A r \in Reqs :
          (reqs[r].kind \in GuardedKinds /\ InFlight(r) /\ reqs'[r] # reqs[r])
            => (Refused(reqs'[r]) <=> reqs[r].uid = 0)]_vars

\* a session that was logged out while bound, and a refused request on it
C16_Witness ==
  \E r, o \in Reqs :
    /\ IsDone(r, "logout") /\ reqs[r].uid # 0 /\ sessions[reqs[r].sess] = 0
    /\ reqs[o].kind \in GuardedKinds /\ Refused(reqs[o])
    /\ reqs[o].sess = reqs[r].sess

\* C17: POST /api/auth/register with an empty email or an empty password
\* fails with 400, creates no account row and establishes no session.
EmptyCredentials(q) ==
  q.kind = "register" /\ (q.body.email = "" \/ q.body.password = PwEmpty)

C17_EmptyCredentialsRejected ==
  [][\A r \in Reqs :
       (EmptyCredentials(reqs[r]) /\ InFlight(r) /\ reqs'[r] # reqs[r])
         => /\ users' = users
            /\ sessions' = sessions
            /\ reqs'[r].pc = "done" => reqs'[r].res.status = 400]_vars

\* C18: GET /api/history returns the caller's records newest first: of two
\* records saved one after the other, the one saved later (the one with the
\* higher id) comes first in the list, also when both were saved within the
\* same tick of the storage clock.
NewestFirst(rows) ==
  \A i, j \in DOMAIN rows : i < j => rows[i].id > rows[j].id

C18_ListNewestFirst ==
  [][\A r \in Reqs :
       Completes(r, "list", "select") => NewestFirst(reqs'[r].res.body.rows)]_vars

\* C19: an avatar upload whose declared media type is not an image type is
\* rejected before anything is stored: no file is written to the uploads
\* directory and the avatar reference of no account changes.
IsImageType(mimetype) == mimetype \in {"image/png"}

NonImageUpload(q) ==
  /\ q.kind = "avatar"
  /\ q.body.originalname # Undefined
  /\ ~IsImageType(q.body.mimetype)

C19_NonImageRejected ==
  [][\A r \in Reqs :
       (NonImageUpload(reqs[r]) /\ InFlight(r) /\ reqs'[r] # reqs[r])
         => /\ uploads' = uploads
            /\ users' = users
            /\ reqs'[r].pc = "done" => reqs'[r].res.status >= 400]_vars

\* C20: when a storage operation fails while a request is handled, the
\* request is still answered, with a server-error or other mapped error
\* status: no request is left without a response by a storage failure.
C20_StorageFailureAnswered ==
  [][\A r \in Reqs :
       QueryFails(r)
         => reqs'[r].pc = "done" /\ reqs'[r].res.status >= 400]_vars

\* C21: concurrent avatar uploads never collide: every upload that carries a
\* file is stored under a filename that no earlier upload was stored under,
\* also when both arrive within the same value of Date.now().
StoresFile(r) ==
  /\ reqs[r].kind = "avatar" /\ reqs[r].pc = "upload" /\ reqs'[r].pc # "upload"
  /\ reqs[r].body.originalname # Undefined

C21_UploadsNeverCollide ==
  [][\A r \in Reqs :
       StoresFile(r) => Cardinality(uploads') = Cardinality(uploads) + 1]_vars

\* C22: on both backends db.run of the INSERT of a registration returns, as
\* lastInsertRowid, the id of the row that this statement created, and the
\* registration reads back that row, never the row of another request, however
\* concurrent registrations interleave.
Inserted(r) ==
  reqs[r].kind = "register" /\ reqs[r].pc = "insert" /\ reqs'[r].pc = "select"

ReadBack(r) ==
  reqs[r].kind = "register" /\ reqs[r].pc = "select" /\ reqs'[r].pc = "respond"

SavesOne(r) ==
  \E h \in cv_history' \ cv_history :
    /\ cv_history' = cv_history \cup {h}
    /\ h.id > histSeq
    /\ \A g \in cv_history : g.id # h.id
    /\ h.user_id = reqs[r].uid
    /\ h.cv_text = reqs[r].body.cvText
    /\ h.job_description = reqs[r].body.jobDescription
    /\ JSONparse(h.analysis_json) = reqs[r].body.analysis

DeletedByOwner(h) ==
  /\ \A g \in cv_history' : g.id # h.id
  /\ \E r \in Reqs :
       /\ Completes(r, "delete", "delete")
       /\ reqs[r].uid = h.user_id
       /\ reqs[r].body.id = IdText(h.id)

C23_SaveInsertsRecordsImmutable ==
  [][/\ \A r \in Reqs :
          (Completes(r, "save", "insert") /\ reqs'[r].res.status = 200)
            => SavesOne(r)
     /\ \A h \in cv_history : h \in cv_history' \/ DeletedByOwner(h)]_vars

\* a save has succeeded and the account holds two records of equal payload
C23_Witness ==
  /\ \E r \in Reqs : IsDone(r, "save") /\ reqs[r].res.status = 200
  /\ \E h, g \in cv_history :
       /\ h.id # g.id /\ h.user_id = g.user_id
       /\ h.cv_text = g.cv_text /\ h.job_description = g.job_description
       /\ h.analysis_json = g.analysis_json

\* C24: the secret that signs session cookies is the value of SESSION_SECRET:
\* two deployments started with different values sign with different secrets,
\* so a cookie issued by one does not pass the verification of the other.
C24_SecretFromEnvironment ==
  /\ \A i, j \in deploy.issued :
       deploy.env[i.by] # deploy.env[j.by] => i.cookie.mac # j.cookie.mac
  /\ \A v \in deploy.verified :
       deploy.env[v.at] # deploy.env[v.by] => v.sid = "false"

\* C25: a POST /api/profile/avatar request made without an authenticated
\* session stores nothing: it responds 401, leaves the users table unchanged
\* and writes no file into the uploads directory.
C25_AnonymousUploadStoresNothing ==
  [][\A r \in Reqs :
       (reqs[r].kind = "avatar" /\ reqs[r].uid = 0 /\ InFlight(r)
          /\ reqs'[r] # reqs[r])
         => /\ Refused(reqs'[r])
            /\ users' = users
            /\ uploads' = uploads]_vars

\* C26: register is all-or-nothing: whenever POST /api/auth/register responds
\* 400, the row that the request inserted (if it inserted one) is not in the
\* users table and the session is not bound by it, also when the storage fails
\* between the INSERT and the end of the read-back SELECT.
Responds400(r) ==
  /\ reqs[r].kind = "register" /\ InFlight(r)
  /\ reqs'[r].pc = "done" /\ reqs'[r].res.status = 400

C26_RegisterAllOrNothing ==
  [][\A r \in Reqs :
       Responds400(r)
         => /\ "lastInsertRowid" \in DOMAIN reqs[r].loc
                 => \A u \in users' : u.id # reqs[r].loc.lastInsertRowid
            /\ sessions' = sessions]_vars

\* C27: in every reachable state the avatar reference of an account is absent
\* or names a file that is in the uploads directory; and an authenticated
\* avatar request that carries no file leaves the avatar reference of the
\* account as it was.
AvatarsNameStoredFiles ==
  \A u \in users : u.avatar = Null \/ \E f \in uploads : u.avatar = AvatarPath(f)

NoFileKeepsAvatar ==
  \A r \in Reqs :
    (IsDone(r, "avatar") /\ reqs[r].uid # 0 /\ reqs[r].body.originalname = Undefined)
      => \A u \in users : u.id = reqs[r].uid => u.avatar # reqs[r].res.body.avatar

C27_AvatarNamesStoredFile == AvatarsNameStoredFiles /\ NoFileKeepsAvatar

\* C28: in the client, whenever a user is logged in, the history list held in
\* client state contains only records owned by that user, after any sequence
\* of page load, login, register, logout, save and delete in one browser.
C28_ClientHistoryIsOwn ==
  client.user # 0 => \A h \in client.history : h.user_id = client.user

\* C29: toggling the theme while logged in changes only the stored theme of the
\* account: after toggleTheme the stored name and bio of the account are what
\* they were before, however the user came to be logged in.
C29_ToggleThemeKeepsNameAndBio ==
  [][(client.user # 0 /\ toggleTheme)
       => \A u \in users : u.id = client.user
            => \E v \in users' :
                 v.id = u.id /\ v.name = u.name /\ v.bio = u.bio]_vars

\* C30: in the client isLoading is true for as long as a request started by a
\* handler that sets it is in flight, so at most one request to the AI
\* collaborator is in flight at a time and the result a tab shows is never
\* replaced by the result of an older request.
AiInFlight == {q \in client.inflight : q.kind \in Tabs}

C30_LoadingCoversRequests ==
  /\ client.inflight # {} => client.isLoading
  /\ Cardinality(AiInFlight) <= 1
  /\ \A q \in AiInFlight : client.shown[q.kind] <= q.no
====
